---- MODULE Spec2Model ----
(***************************************************************************)
(* Model of markov-rs (src/src/lib.rs): an order-2 Markov chain over       *)
(* words.  MarkovGenerator keeps the word history (`words`) and a Cache    *)
(* (here the HashMap implementation) from word pairs to the words seen     *)
(* after them.  feed_from_words records trigrams, generate_text walks the  *)
(* cache from a random position of the history.                            *)
(***************************************************************************)
EXTENDS Integers, Sequences, FiniteSets, TLC

\* ------------------------------------------------------------------ bounds
WordSet == {"a", "b", "c"}     \* the words callers feed
WordOrder == <<"a", "b", "c">> \* the order in which callers introduce them
MaxBatch == 4                  \* longest batch given to feed_from_words
MaxWords == 5                  \* longest history explored
MaxFeeds == 2                  \* number of feed_from_words calls explored
MaxSize == 3                   \* largest size given to generate_text
UintBits == 8                  \* width of uint in the model (wraps mod 2^UintBits)

VARIABLES
    words,      \* MarkovGenerator.words: the history
    cache,      \* MarkovGenerator.cache: HashMap<(String, String), Vec<String>>
    batches,    \* the arguments of the feed_from_words calls made so far
    chained,    \* the words given to Triples::new by the last feed_from_words
    puts,       \* the Cache::put calls made by the last feed_from_words
    pc,         \* "idle", or the position of the running generate_text call
    size,       \* generate_text: the argument
    i,          \* generate_text: iterations of the for loop started so far
    broke,      \* generate_text: the loop was left by `break`
    seed,       \* generate_text: the drawn start index (0-based)
    w1, w2,     \* generate_text: the current pair
    out,        \* generate_text: the local Vec `words`
    text        \* generate_text: the returned String

vars == <<words, cache, batches, chained, puts, pc, size, i, broke, seed, w1, w2, out, text>>

\* ----------------------------------------------------------------- helpers
None == <<>>
Some(v) == <<v>>
IsSome(o) == o # None
Unwrap(o) == o[1]

Min(x, y) == IF x <= y THEN x ELSE y

RECURSIVE Pow2(_)
Pow2(n) == IF n = 0 THEN 1 ELSE 2 * Pow2(n - 1)

\* uint subtraction: wraps on underflow
UintSub(x, y) == (x - y + Pow2(UintBits)) % Pow2(UintBits)

BoundedSeq(S, n) == UNION {[1..k -> S] : k \in 0..n}

\* -------------------------------------------------------------------- Cache
EmptyCache == << >>

\* Cache::get for the HashMap: Some(slice) for a present key, else None
Get(c, key) == IF key \in DOMAIN c THEN Some(c[key]) ELSE None

\* Cache::has (default method): get(key).is_some()
Has(c, key) == IsSome(Get(c, key))

\* Put with the push lost: the key's Vec is replaced by a fresh one
PutOverwrite(c, key, value) ==
    [k \in DOMAIN c \cup {key} |-> IF k = key THEN <<value>> ELSE c[k]]

\* Put that skips a successor the key already lists
PutDedup(c, key, value) ==
    IF key \in DOMAIN c
    THEN IF \E n \in 1..Len(c[key]) : c[key][n] = value
         THEN c
         ELSE [c EXCEPT ![key] = Append(@, value)]
    ELSE [k \in DOMAIN c \cup {key} |-> IF k = key THEN <<value>> ELSE c[k]]

\* Put that inserts an empty Vec for a new key and drops the value
PutInsertEmpty(c, key, value) ==
    IF key \in DOMAIN c
    THEN [c EXCEPT ![key] = Append(@, value)]
    ELSE [k \in DOMAIN c \cup {key} |-> IF k = key THEN <<>> ELSE c[k]]

\* Cache::put for the HashMap: push onto the key's Vec, or insert a new Vec
Put(c, key, value) ==
    IF Has(c, key)
    THEN [c EXCEPT ![key] = Append(@, value)]
    ELSE [k \in DOMAIN c \cup {key} |-> IF k = key THEN <<value>> ELSE c[k]]

\* ------------------------------------------------------------------ Triples
\* The iterator is the sequence of items it still has to yield.
IterNext(it) == IF it = <<>> THEN [item |-> None, iter |-> it]
                ELSE [item |-> Some(Head(it)), iter |-> Tail(it)]

\* TriplesNext looking ahead on the cursor itself instead of a clone
TriplesNextNoClone(it) ==
    LET ra == IterNext(it)
        rb == IterNext(ra.iter)
        rc == IterNext(rb.iter)
    IN  [item |-> IF IsSome(ra.item) /\ IsSome(rb.item) /\ IsSome(rc.item)
                  THEN Some(<<Unwrap(ra.item), Unwrap(rb.item), Unwrap(rc.item)>>)
                  ELSE None,
         iter |-> rc.iter]

\* Triples::next: advance the cursor by one, look two ahead on a clone
TriplesNext(it) ==
    LET ra == IterNext(it)
        rb == IterNext(ra.iter)
        rc == IterNext(rb.iter)
    IN  [item |-> IF IsSome(ra.item) /\ IsSome(rb.item) /\ IsSome(rc.item)
                  THEN Some(<<Unwrap(ra.item), Unwrap(rb.item), Unwrap(rc.item)>>)
                  ELSE None,
         iter |-> ra.iter]

\* `for t in triples`: the items yielded until the first None
RECURSIVE TriplesCollect(_)
TriplesCollect(it) ==
    LET r == TriplesNext(it)
    IN  IF IsSome(r.item) THEN <<Unwrap(r.item)>> \o TriplesCollect(r.iter)
        ELSE <<>>

\* ---------------------------------------------------------- feed_from_words
\* last_words: the last three words of the history when it has more than three
LastWords(ws) ==
    IF Len(ws) > 3 THEN SubSeq(ws, Len(ws) - 3 + 1, Len(ws)) ELSE <<>>

\* Chain with the two halves swapped
ChainSwapped(lw, batch) == batch \o lw

\* last_words.iter().chain(words.iter())
Chain(lw, batch) == lw \o batch

\* the loop body, once per yielded triple
RECURSIVE PutAll(_, _)
PutAll(c, ts) ==
    IF ts = <<>> THEN c
    ELSE PutAll(Put(c, <<ts[1][1], ts[1][2]>>, ts[1][3]), Tail(ts))

\* Extend given the chained iterator: the carried words are appended again
ExtendChained(ws, batch) == ws \o Chain(LastWords(ws), batch)

\* self.words.extend(words)
Extend(ws, batch) == ws \o batch

FeedTriples(ws, batch) == TriplesCollect(Chain(LastWords(ws), batch))

FeedFromWords(batch) ==
    /\ pc \in {"idle", "done"}
    /\ Len(batches) < MaxFeeds
    /\ Len(words) + Len(batch) <= MaxWords
    /\ chained' = Chain(LastWords(words), batch)
    /\ puts' = TriplesCollect(chained')
    /\ cache' = PutAll(cache, puts')
    /\ words' = Extend(words, batch)
    /\ batches' = Append(batches, batch)
    /\ pc' = "idle"
    /\ size' = 0 /\ i' = 0 /\ broke' = FALSE /\ seed' = 0
    /\ w1' = "" /\ w2' = "" /\ out' = <<>> /\ text' = ""

\* Words are opaque to the program (it only compares them), so the histories
\* explored are taken up to renaming: a word is first fed only after the words
\* before it in WordOrder.
Canonical(ws) ==
    \A k \in 1..Len(ws) :
        \A r \in 1..Len(WordOrder) :
            (WordOrder[r] = ws[k]) =>
                \A q \in 1..(r - 1) : \E m \in 1..(k - 1) : ws[m] = WordOrder[q]

\* a caller of feed_from_words: any batch that fits the explored history
FeedCall ==
    /\ pc \in {"idle", "done"} /\ Len(batches) < MaxFeeds
    /\ \E batch \in BoundedSeq(WordSet, Min(MaxBatch, MaxWords - Len(words))) :
          /\ Canonical(words \o batch)
          /\ FeedFromWords(batch)

\* ------------------------------------------------------------ generate_text
\* Rng::gen_range(low, high): asserts low < high, then draws from [low, high)
GenRangeFails(low, high) == ~(low < high)
GenRange(low, high) == low .. (high - 1)

\* rng.choose(slice): None on an empty slice, else any element
Choose(ws) == IF ws = <<>> THEN {None} ELSE {Some(ws[k]) : k \in 1..Len(ws)}

\* Vec<&str>::connect(sep)
RECURSIVE Connect(_, _)
Connect(ws, sep) ==
    IF ws = <<>> THEN ""
    ELSE IF Len(ws) = 1 THEN ws[1]
    ELSE ws[1] \o sep \o Connect(Tail(ws), sep)

\* LookupKey without old_w1: the lookup uses the already advanced w1
LookupKeyAdvanced(old_w1, new_w1, cur_w2) == <<new_w1, cur_w2>>

\* the key given to cache.get in the loop
LookupKey(old_w1, new_w1, cur_w2) == <<old_w1, cur_w2>>

\* LoopContinues with an inclusive upper end
LoopContinuesInclusive(n, sz) == n <= sz

\* `for _ in range(0, size)`: another iteration is started
LoopContinues(n, sz) == n < sz

SeedHigh(ws) == UintSub(Len(ws), 3)

\* lines 112-117: draw the seed and read the first pair (indices are 0-based);
\* a panic unwinds the frame, its locals are gone
GenerateStart(sz) ==
    /\ pc \in {"idle", "done"}
    /\ size' = sz /\ i' = 0 /\ broke' = FALSE /\ out' = <<>> /\ text' = ""
    /\ UNCHANGED <<words, cache, batches, chained, puts>>
    /\ \/ /\ GenRangeFails(0, SeedHigh(words))
          /\ pc' = "panicked" /\ seed' = 0 /\ w1' = "" /\ w2' = ""
       \/ /\ ~GenRangeFails(0, SeedHigh(words))
          /\ \E s \in GenRange(0, SeedHigh(words)) :
                IF s + 1 < Len(words)
                THEN /\ pc' = "loop" /\ seed' = s
                     /\ w1' = words[s + 1]
                     /\ w2' = words[s + 2]
                ELSE /\ pc' = "panicked" /\ seed' = 0 /\ w1' = "" /\ w2' = ""

\* GenerateIter with a lookup that creates the missing entry
GenerateIterInserting ==
    /\ pc = "loop" /\ ~broke /\ LoopContinues(i, size)
    /\ i' = i + 1
    /\ out' = Append(out, w1)
    /\ w1' = w2
    /\ UNCHANGED <<words, batches, chained, puts, size, seed, text>>
    /\ LET key == LookupKey(w1, w2, w2)
           got == Get(cache, key)
       IN  IF IsSome(got)
           THEN /\ cache' = cache
                /\ \E ch \in Choose(Unwrap(got)) :
                    IF IsSome(ch)
                    THEN w2' = Unwrap(ch) /\ broke' = FALSE /\ pc' = "loop"
                    ELSE w2' = w2 /\ broke' = FALSE /\ pc' = "panicked"
           ELSE /\ cache' = [k \in DOMAIN cache \cup {key} |->
                                IF k = key THEN <<>> ELSE cache[k]]
                /\ w2' = w2 /\ broke' = TRUE /\ pc' = "loop"

\* lines 119-131: one iteration of the loop
GenerateIter ==
    /\ pc = "loop" /\ ~broke /\ LoopContinues(i, size)
    /\ i' = i + 1
    /\ out' = Append(out, w1)
    /\ w1' = w2
    /\ UNCHANGED <<words, cache, batches, chained, puts, size, seed, text>>
    /\ LET got == Get(cache, LookupKey(w1, w2, w2))
       IN  IF IsSome(got)
           THEN \E ch \in Choose(Unwrap(got)) :
                    IF IsSome(ch)
                    THEN w2' = Unwrap(ch) /\ broke' = FALSE /\ pc' = "loop"
                    ELSE w2' = w2 /\ broke' = FALSE /\ pc' = "panicked"
           ELSE w2' = w2 /\ broke' = TRUE /\ pc' = "loop"

\* line 133: the loop is over, join and return
GenerateReturn ==
    /\ pc = "loop" /\ (broke \/ ~LoopContinues(i, size))
    /\ text' = Connect(out, " ")
    /\ pc' = "done"
    /\ UNCHANGED <<words, cache, batches, chained, puts, size, i, broke, seed, w1, w2, out>>

\* ------------------------------------------------------------ specification
\* MarkovGenerator::new(HashMap::new())
Init ==
    /\ words = <<>> /\ cache = EmptyCache
    /\ batches = <<>> /\ chained = <<>> /\ puts = <<>>
    /\ pc = "idle"
    /\ size = 0 /\ i = 0 /\ broke = FALSE /\ seed = 0
    /\ w1 = "" /\ w2 = "" /\ out = <<>> /\ text = ""

Next ==
    \/ FeedCall
    \/ \E sz \in 0..MaxSize : GenerateStart(sz)
    \/ GenerateIter
    \/ GenerateReturn

Spec == Init /\ [][Next]_vars

\* generate_text is a synchronous call: once started, its loop and its return
\* run to completion
FairSpec == Spec /\ WF_vars(GenerateIter) /\ WF_vars(GenerateReturn)

TypeOK ==
    /\ words \in BoundedSeq(WordSet, MaxWords)
    /\ pc \in {"idle", "loop", "done", "panicked"}
    /\ i \in 0..MaxSize /\ size \in 0..MaxSize

\* ------------------------------------------------------------------ claims
Range(f) == {f[x] : x \in DOMAIN f}

RECURSIVE Flatten(_)
Flatten(bs) == IF bs = <<>> THEN <<>> ELSE Head(bs) \o Flatten(Tail(bs))

\* the 1-based positions of w at which the pair `key` starts a trigram
TrigramStarts(w, key) ==
    {k \in 1..(Len(w) - 2) : <<w[k], w[k + 1]>> = key}

\* the words following the pair `key` in w, in order of position
RECURSIVE FollowersFrom(_, _, _)
FollowersFrom(w, key, k) ==
    IF k > Len(w) - 2 THEN <<>>
    ELSE (IF <<w[k], w[k + 1]>> = key THEN <<w[k + 2]>> ELSE <<>>)
         \o FollowersFrom(w, key, k + 1)

\* the store that lists, for every pair starting a trigram of w, its followers
TrigramStore(w) ==
    [key \in {<<w[k], w[k + 1]>> : k \in 1..(Len(w) - 2)}
        |-> FollowersFrom(w, key, 1)]

\* a generate_text call has been made and has not been followed by a feed
InGenerate == pc \in {"loop", "done", "panicked"}

\* C1: feeding a sequence in two batches, the first of at least 3 words,
\* leaves the same store as feeding the whole sequence in one call on a
\* fresh model.
C1_TwoBatchesAsOne ==
    (Len(batches) = 2 /\ Len(batches[1]) >= 3)
        => cache = PutAll(EmptyCache, FeedTriples(<<>>, batches[1] \o batches[2]))

\* C2: a pair is a key of the store iff the history contains three
\* consecutive words that start with that pair.
C2_KeyIffTrigram ==
    \A key \in WordSet \X WordSet :
        key \in DOMAIN cache <=> TrigramStarts(words, key) # {}

\* C3: feed_from_words with an empty batch changes neither the history nor
\* the store.
C3_EmptyFeedNoOp ==
    [][FeedFromWords(<<>>) => UNCHANGED <<words, cache>>]_vars

\* C4: a single feed of n >= 3 words on a fresh model makes exactly the n-2
\* puts ((w[k], w[k+1]) -> w[k+2]) in order, so every key lists the words that
\* follow its pair in w, in order.
C4_SingleFeedPuts ==
    (Len(batches) = 1 /\ Len(batches[1]) >= 3) =>
        LET w == batches[1]
        IN  /\ puts = [k \in 1..(Len(w) - 2) |-> <<w[k], w[k + 1], w[k + 2]>>]
            /\ cache = TrigramStore(w)

C4_Witness ==
    /\ Len(batches) = 1 /\ Len(batches[1]) = 4
    /\ \E key \in DOMAIN cache :
          Len(cache[key]) = 2 /\ cache[key][1] # cache[key][2]

\* C5: the history is the concatenation of the fed batches in call order; it
\* never gets shorter and no earlier element changes.
C5_HistoryIsConcat ==
    /\ [](words = Flatten(batches))
    /\ [][/\ Len(words') >= Len(words)
          /\ SubSeq(words', 1, Len(words)) = words]_vars

C5_Witness ==
    /\ Len(batches) = 2
    /\ Len(batches[1]) = 4 /\ Len(batches[2]) = 1
    /\ Len(words) = 5

\* C6: with a history of at least 3 words, generate_text draws its start
\* index from exactly 0..len-3 and the draw never fails.
C6_SeedRange ==
    (InGenerate /\ Len(words) >= 3) =>
        /\ pc # "panicked"
        /\ GenRange(0, SeedHigh(words)) = 0..(Len(words) - 3)
        /\ seed \in 0..(Len(words) - 3)

\* C7: on a model fed only the batch [a,b,c], generate_text(3) returns
\* exactly "a b c".
C7_ABC ==
    (batches = << <<"a", "b", "c">> >> /\ InGenerate /\ size = 3) =>
        /\ pc # "panicked"
        /\ pc = "done" => text = "a b c"

\* C8: with fewer than 3 words in the history generate_text always fails,
\* never returns a string, and leaves the history and the store unchanged.
C8_InsufficientCorpus ==
    /\ []((InGenerate /\ Len(words) < 3) => pc = "panicked")
    /\ [][(Len(words) < 3 /\ (\E sz \in 0..MaxSize : GenerateStart(sz)))
            => UNCHANGED <<words, cache>>]_vars

\* C9: a result returned by generate_text(N), N >= 1, has at least 1 and at
\* most N words.
C9_LengthBound ==
    (pc = "done" /\ size >= 1) =>
        /\ text = Connect(out, " ")
        /\ Len(out) >= 1 /\ Len(out) <= size

C9_Witness ==
    pc = "done" /\ size = MaxSize /\ Len(out) = MaxSize /\ Len(batches) = 2

\* C10: in a returned result every pair of consecutive words that has a
\* next word is a key of the store, and that next word is one of the key's
\* recorded successors.
C10_ValidTransitions ==
    pc = "done" =>
        /\ text = Connect(out, " ")
        /\ \A k \in 1..(Len(out) - 2) :
              /\ Has(cache, <<out[k], out[k + 1]>>)
              /\ out[k + 2] \in Range(cache[<<out[k], out[k + 1]>>])

C10_Witness ==
    /\ pc = "done" /\ Len(out) = 3
    /\ out[1] # out[2] /\ out[2] # out[3]

\* three words occur consecutively somewhere in w
OccursIn(w, t) ==
    \E k \in 1..(Len(w) - 2) : <<w[k], w[k + 1], w[k + 2]>> = t

\* C11: for every key (w1,w2) of the store and every word w3 among its
\* successors, w1,w2,w3 occur consecutively somewhere in the history.
C11_SuccessorsFromHistory ==
    \A key \in DOMAIN cache :
        \A n \in 1..Len(cache[key]) :
            OccursIn(words, <<key[1], key[2], cache[key][n]>>)

C11_Witness ==
    /\ Len(batches) = 2 /\ Len(batches[2]) = 1
    /\ Len(chained) = 4 /\ Len(puts) = 2
    /\ chained[1] # chained[2] /\ chained[3] # chained[4]

\* C12: generate_text is read-only: none of its steps, whether the call
\* returns early, returns the full length or fails, changes the history or
\* the store.
C12_GenerateReadOnly ==
    [][pc' \in {"loop", "done", "panicked"}
            => (words' = words /\ cache' = cache)]_vars

C12_Witness ==
    /\ pc = "done" /\ broke
    /\ Len(out) = 2 /\ size = 3
    /\ cache # EmptyCache

\* C13: on every store the feeds can build, put(key, v) makes get(key) return
\* the key's previous successors (none if the key was absent) followed by v,
\* duplicates kept, and leaves every other key as it was; has(key) is true
\* exactly when get(key) returns a sequence.
C13_PutGetHas ==
    \A key \in WordSet \X WordSet :
        /\ Has(cache, key) <=> key \in DOMAIN cache
        /\ Has(cache, key) => Get(cache, key) = Some(cache[key])
        /\ \A v \in WordSet :
              LET before == IF key \in DOMAIN cache THEN cache[key] ELSE <<>>
                  after == Put(cache, key, v)
              IN  /\ Get(after, key) = Some(Append(before, v))
                  /\ DOMAIN after = DOMAIN cache \cup {key}
                  /\ \A other \in DOMAIN cache :
                        other # key => Get(after, other) = Get(cache, other)

C13_Witness ==
    /\ Cardinality(DOMAIN cache) >= 2
    /\ \E key \in DOMAIN cache :
          Len(cache[key]) = 2 /\ cache[key][1] = cache[key][2]

\* the windows of three consecutive elements of x, in increasing position
Windows(x) == [k \in 1..(Len(x) - 2) |-> <<x[k], x[k + 1], x[k + 2]>>]

\* C14: over an input of n words Triples yields exactly the windows
\* (x[k], x[k+1], x[k+2]) in increasing k and then stops; it yields nothing
\* when n < 3 and never a window of fewer than three elements.
C14_TriplesWindows ==
    /\ puts = Windows(chained)
    /\ Len(chained) < 3 => puts = <<>>
    /\ \A n \in 1..Len(puts) : Len(puts[n]) = 3

C14_Witness ==
    /\ Len(chained) = 4 /\ Len(puts) = 2
    /\ chained[1] # chained[2] /\ chained[2] # chained[3]
    /\ chained[3] # chained[4]

\* the number of positions of the sequence q that hold v
CountIn(q, v) == Cardinality({n \in 1..Len(q) : q[n] = v})

\* the number of positions of w at which the three words t occur consecutively
Occurrences(w, t) ==
    Cardinality({k \in 1..(Len(w) - 2) : <<w[k], w[k + 1], w[k + 2]>> = t})

\* C15: no trigram is recorded more often than the input repeats it: a key's
\* successor sequence holds w3 at most as often as the key's pair followed by
\* w3 occurs in the history.
C15_NoDuplicateTrigram ==
    \A key \in DOMAIN cache :
        \A w3 \in WordSet :
            CountIn(cache[key], w3) <= Occurrences(words, <<key[1], key[2], w3>>)

\* C16: the loop of generate_text(N) runs at most N iterations and the call
\* then returns; the result has fewer than N words only if the walk reached a
\* pair without an entry in the store, and exactly N words if every pair
\* reached had one.
C16_Terminates ==
    /\ [](pc \in {"loop", "done"} => (i <= size /\ Len(out) = i))
    /\ [](pc = "done" =>
            /\ Len(out) < size =>
                  (broke /\ ~Has(cache, <<out[Len(out)], w2>>))
            /\ ~broke => Len(out) = size)
    /\ (pc = "loop") ~> (pc = "done")

C16_Witness ==
    /\ pc = "done" /\ broke
    /\ size = 3 /\ Len(out) = 1
    /\ cache # EmptyCache

\* C17: every key of the store has at least one successor, so choosing a
\* successor of a key that get returned never fails: generate_text never
\* panics inside its loop (a panic can only come from the seed draw, before
\* the first iteration).
C17_SuccessorsNonEmpty ==
    /\ \A key \in DOMAIN cache : Len(cache[key]) >= 1
    /\ \A key \in DOMAIN cache : None \notin Choose(cache[key])
    /\ pc = "panicked" => i = 0

C17_Witness ==
    /\ pc = "loop" /\ ~broke /\ i = 2
    /\ Has(cache, <<out[1], out[2]>>)
    /\ w2 \in Range(cache[<<out[1], out[2]>>])
====
